---- MODULE Spec2Model ----
(***************************************************************************)
(* A model of piblo/pycasso.py: the provider selection, the fallback loop  *)
(* get_image_fallback_modes and the run() driver around it.                *)
(***************************************************************************)
EXTENDS Integers, Sequences, FiniteSets, TLC

(***************************************************************************)
(* Bounds of the model.                                                    *)
(***************************************************************************)
\* largest provider weight (config.*_amount) a run starts with
MaxAmount == 1
\* cap on the number of get_image calls of one run (the code itself stays
\* below it; it only keeps a broken variant of the loop finite)
MaxCalls == 8
\* the most tokens of a text the template engine is run on
MaxTextLen == 5
\* largest provider weight of the tables a single draw is made on
MaxWeight == 3

(***************************************************************************)
(* The state of one run of Pycasso.run().                                  *)
(***************************************************************************)
VARIABLES
  amount,        \* config.external_amount .. config.automatic_amount
  test_enabled,  \* config.test_enabled
  save_image,    \* config.save_image
  prompt_mode,   \* config.prompt_mode
  image_base,    \* self.image_base: None, or the provider the image is from
  provider,      \* the provider get_image selected
  prompt,        \* self.prompt
  metadata,      \* self.metadata: the (key, text) pairs added
  artist_text,   \* self.artist_text
  title_text,    \* self.title_text
  icons,         \* self.icons
  epd_calls,     \* the calls made on the display driver, in order
  pc,            \* where run() is
  outcome,       \* how run() ended
  amount0,       \* the amounts the run started with
  calls,         \* the number of get_image calls so far
  fetched,       \* per provider, the calls of its image loader
  failed,        \* per provider, the loader calls that gave no image or raised
  no_image,      \* the number of get_image calls that returned no image
  saved,         \* the save_image calls: (prompt, image, metadata)
  composed,      \* whether the crop / icon / text steps of run() ran
  norun,         \* args.norun
  mode_warned,   \* the "Invalid prompt mode chosen" warnings given
  warned,        \* the "Tried to remove invalid mode" warnings logged
  result,        \* what get_image_fallback_modes returned to run()
  text,          \* parse_multiple_brackets: the local text
  text0,         \* parse_multiple_brackets: the text it was called with
  bracket_pairs, \* parse_multiple_brackets: the bracket pairs, as declared
  passes,        \* the parse_text calls made: (brackets, text in, text out)
  parts,         \* the arguments of a prompt builder
  built,         \* what the prompt builder returned
  box_args,      \* the arguments of add_text_to_image
  drawn,         \* the calls add_text_to_image made on the draw object
  battery_args   \* the arguments of add_battery_icon

vars == <<amount, test_enabled, save_image, prompt_mode, image_base, provider,
          prompt, metadata, artist_text, title_text, icons, epd_calls, pc,
          outcome, amount0, calls, fetched, failed, no_image, saved, composed,
          norun, mode_warned, warned, result, text, text0, bracket_pairs,
          passes, parts, built, box_args, drawn, battery_args>>

\* the variables of the run
run_vars == <<amount, test_enabled, save_image, prompt_mode, image_base,
              provider, prompt, metadata, artist_text, title_text, icons,
              epd_calls, outcome, amount0, calls, fetched, failed, no_image,
              saved, composed, norun, mode_warned, warned, result>>

\* the variables of the template engine, the prompt builders and the text box
template_vars == <<text, text0, bracket_pairs, passes>>
builder_vars == <<parts, built>>
text_box_vars == <<box_args, drawn>>
battery_vars == <<battery_args>>

(***************************************************************************)
(* ProvidersConst, PromptModeConst, IconFileConst: the tags the code uses. *)
(***************************************************************************)
EXTERNAL == "external"
HISTORIC == "historic"
STABLE == "stable"
DALLE == "dalle"
AUTOMATIC == "automatic"
TEST == "test"

\* the value of a Python variable that holds None
None == "None"

\* random.choices raising ValueError('Total of weights must be greater than zero')
ValueError == "ValueError"

\* provider_types, in the order get_random_provider_mode lists them
provider_types == <<EXTERNAL, HISTORIC, STABLE, DALLE, AUTOMATIC>>

Providers == {provider_types[i] : i \in 1..Len(provider_types)}

\* the providers behind a generation API
Generators == {STABLE, DALLE, AUTOMATIC}

\* provider_weights: the tuple of the config's amounts, in the same order
provider_weights(amounts) ==
  [i \in 1..Len(provider_types) |-> amounts[provider_types[i]]]

RANDOM == "random"
SUBJECT_ARTIST == "subject_artist"
PROMPT == "prompt"
\* a prompt mode that is none of the three
INVALID_MODE == "invalid"

PromptModes == {RANDOM, SUBJECT_ARTIST, PROMPT, INVALID_MODE}

ICON_EXCEPTION == "icon_exception"
ICON_BATTERY_20 == "icon_battery_20"
ICON_BATTERY_40 == "icon_battery_40"
ICON_BATTERY_60 == "icon_battery_60"
ICON_BATTERY_80 == "icon_battery_80"
ICON_BATTERY_100 == "icon_battery_100"
ICON_BATTERY_ERROR == "icon_battery_error"

(***************************************************************************)
(* random.choices(population, k=1, weights=w)[0], as the library computes  *)
(* it: the cumulative weights, then bisect over them.                      *)
(***************************************************************************)
RECURSIVE accumulate(_, _)
\* the sum of the first n weights
accumulate(weights, n) ==
  IF n = 0 THEN 0 ELSE accumulate(weights, n - 1) + weights[n]

\* the weights taken for their own cumulative sums
cum_weights_plain(weights) == weights

\* list(accumulate(weights))
cum_weights(weights) ==
  [i \in 1..Len(weights) |-> accumulate(weights, i)]

RECURSIVE bisect_left(_, _, _, _)
\* bisect with the comparison of bisect_left
bisect_left(a, x, lo, hi) ==
  IF lo < hi
  THEN LET mid == (lo + hi) \div 2
       IN IF x <= a[mid + 1]
          THEN bisect_left(a, x, lo, mid)
          ELSE bisect_left(a, x, mid + 1, hi)
  ELSE lo

RECURSIVE bisect(_, _, _, _)
\* bisect.bisect_right(a, x, lo, hi) on 0-based positions (a[mid + 1] is the
\* Python a[mid])
bisect(a, x, lo, hi) ==
  IF lo < hi
  THEN LET mid == (lo + hi) \div 2
       IN IF x < a[mid + 1]
          THEN bisect(a, x, lo, mid)
          ELSE bisect(a, x, mid + 1, hi)
  ELSE lo

\* one draw: x is the integer part of random() * total, 0 <= x < total
choices(population, weights, x) ==
  population[bisect(cum_weights(weights), x, 0, Len(population) - 1) + 1]

\* total_amounts: the loop at lines 494-496
total_amounts(amounts) ==
  accumulate(provider_weights(amounts), Len(provider_types))


(***************************************************************************)
(* get_random_provider_mode: every provider one call can return.           *)
(***************************************************************************)
\* every result random.choices(population, k=1, weights=weights)[0] can give
random_choices(population, weights) ==
  LET total == accumulate(weights, Len(weights))
  IN IF total <= 0
     THEN {ValueError}
     ELSE {choices(population, weights, x) : x \in 0..(total - 1)}

\* get_random_provider_mode drawing among the five without their weights
get_random_provider_mode_unweighted(amounts) ==
  IF total_amounts(amounts) <= 0 THEN {TEST} ELSE Providers

\* get_random_provider_mode testing total_amounts < 0
get_random_provider_mode_strict(amounts) ==
  IF total_amounts(amounts) < 0
  THEN {TEST}
  ELSE random_choices(provider_types, provider_weights(amounts))

\* get_random_provider_mode testing total_amounts <= 1
get_random_provider_mode_off_by_one(amounts) ==
  IF total_amounts(amounts) <= 1
  THEN {TEST}
  ELSE random_choices(provider_types, provider_weights(amounts))

get_random_provider_mode(amounts) ==
  IF total_amounts(amounts) <= 0
  THEN {TEST}
  ELSE random_choices(provider_types, provider_weights(amounts))

\* remove_provider_mode with the DALLE branch zeroing the stability amount
remove_provider_mode_swapped(amounts, mode) ==
  IF mode = EXTERNAL THEN [amounts EXCEPT ![EXTERNAL] = 0]
  ELSE IF mode = HISTORIC THEN [amounts EXCEPT ![HISTORIC] = 0]
  ELSE IF mode = STABLE THEN [amounts EXCEPT ![STABLE] = 0]
  ELSE IF mode = DALLE THEN [amounts EXCEPT ![STABLE] = 0]
  ELSE IF mode = AUTOMATIC THEN [amounts EXCEPT ![AUTOMATIC] = 0]
  ELSE amounts

\* remove_provider_mode writing to a copy of the config: nothing is removed
remove_provider_mode_lost(amounts, mode) == amounts

\* remove_provider_mode starting from the amounts of the config file: what
\* was removed before comes back
remove_provider_mode_reload(amounts, mode) ==
  IF mode \in Providers THEN [amount0 EXCEPT ![mode] = 0] ELSE amounts

\* remove_provider_mode zeroing every amount
remove_provider_mode_all(amounts, mode) ==
  IF mode \in Providers THEN [p \in DOMAIN amounts |-> 0] ELSE amounts

\* remove_provider_mode taking one off the amount
remove_provider_mode_decrement(amounts, mode) ==
  IF mode \in Providers THEN [amounts EXCEPT ![mode] = @ - 1] ELSE amounts

\* remove_provider_mode with the last elif as the else branch
remove_provider_mode_else(amounts, mode) ==
  IF mode = EXTERNAL THEN [amounts EXCEPT ![EXTERNAL] = 0]
  ELSE IF mode = HISTORIC THEN [amounts EXCEPT ![HISTORIC] = 0]
  ELSE IF mode = STABLE THEN [amounts EXCEPT ![STABLE] = 0]
  ELSE IF mode = DALLE THEN [amounts EXCEPT ![DALLE] = 0]
  ELSE [amounts EXCEPT ![AUTOMATIC] = 0]

(***************************************************************************)
(* remove_provider_mode: the amounts after the call.                       *)
(***************************************************************************)
remove_provider_mode(amounts, mode) ==
  IF mode = EXTERNAL THEN [amounts EXCEPT ![EXTERNAL] = 0]
  ELSE IF mode = HISTORIC THEN [amounts EXCEPT ![HISTORIC] = 0]
  ELSE IF mode = STABLE THEN [amounts EXCEPT ![STABLE] = 0]
  ELSE IF mode = DALLE THEN [amounts EXCEPT ![DALLE] = 0]
  ELSE IF mode = AUTOMATIC THEN [amounts EXCEPT ![AUTOMATIC] = 0]
  ELSE amounts

\* line 517: remove_provider_mode logs its warning, for a mode that is none of
\* the five
remove_provider_mode_warns(mode) ==
  mode \notin {EXTERNAL, HISTORIC, STABLE, DALLE, AUTOMATIC}

\* add_exception_icon without the append
add_exception_icon_dropped(icon_list) == icon_list

\* add_exception_icon
add_exception_icon(icon_list) == Append(icon_list, ICON_EXCEPTION)

(***************************************************************************)
(* add_battery_icon: range(0-20) is range(-20), and so on: each of the     *)
(* five ranges is range(n) for a negative n.                               *)
(***************************************************************************)
\* x in range(stop)
in_range(x, stop) == 0 <= x /\ x < stop

battery_icon(battery_percent) ==
  IF in_range(battery_percent, 0 - 20) THEN ICON_BATTERY_20
  ELSE IF in_range(battery_percent, 21 - 40) THEN ICON_BATTERY_40
  ELSE IF in_range(battery_percent, 41 - 60) THEN ICON_BATTERY_60
  ELSE IF in_range(battery_percent, 61 - 80) THEN ICON_BATTERY_80
  ELSE IF in_range(battery_percent, 81 - 100) THEN ICON_BATTERY_100
  ELSE ICON_BATTERY_ERROR

add_battery_icon(icon_list, battery_percent) ==
  Append(icon_list, battery_icon(battery_percent))

(***************************************************************************)
(* prep_prompt_text: the texts are tags that tell where a text came from.  *)
(***************************************************************************)
\* the mode the builder runs in: RANDOM draws randint(1, PROMPT_MODES_COUNT)
built_modes(mode) ==
  IF mode = RANDOM THEN {SUBJECT_ARTIST, PROMPT} ELSE {mode}

\* lines 414-415: the warning prep_prompt_text gives for a mode that is
\* neither of the two it builds (as a number of warnings)
prep_prompt_text_warned(m) == IF m \in {SUBJECT_ARTIST, PROMPT} THEN 0 ELSE 1

\* prep_prompt_text building nothing for a mode it does not know
prep_prompt_text_invalid_unbuilt(m, old_artist) ==
  IF m = SUBJECT_ARTIST
  THEN [prompt |-> "preamble+subject+connector+artist+postscript",
        artist_text |-> "artist_line",
        title_text |-> "subject_line",
        metadata |-> {<<"Artist", "artist_line">>,
                      <<"Title", "subject_line">>,
                      <<"Prompt", "preamble+subject+connector+artist+postscript">>}]
  ELSE IF m = PROMPT
  THEN [prompt |-> "preamble+prompt_line+postscript",
        artist_text |-> old_artist,
        title_text |-> "prompt_line",
        metadata |-> {<<"Prompt", "preamble+prompt_line+postscript">>}]
  ELSE [prompt |-> "",
        artist_text |-> old_artist,
        title_text |-> "",
        metadata |-> {<<"Prompt", "">>}]

\* prep_prompt_text without the Prompt key of the metadata
prep_prompt_text_no_prompt_key(m, old_artist) ==
  IF m = SUBJECT_ARTIST
  THEN [prompt |-> "preamble+subject+connector+artist+postscript",
        artist_text |-> "artist_line",
        title_text |-> "subject_line",
        metadata |-> {<<"Artist", "artist_line">>,
                      <<"Title", "subject_line">>}]
  ELSE [prompt |-> "preamble+prompt_line+postscript",
        artist_text |-> old_artist,
        title_text |-> "prompt_line",
        metadata |-> {}]

\* the fields of self after prep_prompt_text ran in mode m (m is not RANDOM)
prep_prompt_text(m, old_artist) ==
  IF m = SUBJECT_ARTIST
  THEN [prompt |-> "preamble+subject+connector+artist+postscript",
        artist_text |-> "artist_line",
        title_text |-> "subject_line",
        metadata |-> {<<"Artist", "artist_line">>,
                      <<"Title", "subject_line">>,
                      <<"Prompt", "preamble+subject+connector+artist+postscript">>}]
  ELSE [prompt |-> "preamble+prompt_line+postscript",
        artist_text |-> old_artist,
        title_text |-> "prompt_line",
        metadata |-> {<<"Prompt", "preamble+prompt_line+postscript">>}]


AllProviders == Providers \cup {TEST}

\* what the loader of a file provider (external, historic) can do: Image.open
\* gives an image or raises, a missing directory calls exit()
FileOutcomes == {"image", "SystemExit", "IOError", "Exception", "KeyboardInterrupt"}

\* what a generation API provider can do: an image, no image, or a raise
ApiOutcomes == {"image", None, "IOError", "Exception", "KeyboardInterrupt"}

\* what load_test_image can do
TestOutcomes == {"image", "IOError", "Exception", "KeyboardInterrupt"}

\* the template engine, the prompt builders and the text box are not in use
TemplateIdle ==
  /\ text = <<>>
  /\ text0 = <<>>
  /\ bracket_pairs = <<>>
  /\ passes = <<>>

BuilderIdle ==
  /\ parts = <<>>
  /\ built = <<>>

TextBoxIdle ==
  /\ box_args = <<>>
  /\ drawn = <<>>

BatteryIdle == battery_args = <<>>

Init ==
  /\ amount \in [Providers -> 0..MaxAmount]
  /\ norun \in BOOLEAN
  /\ mode_warned = 0
  /\ warned = 0
  /\ result = <<>>
  /\ TemplateIdle
  /\ BuilderIdle
  /\ TextBoxIdle
  /\ BatteryIdle
  /\ amount0 = amount
  /\ test_enabled \in BOOLEAN
  /\ save_image \in BOOLEAN
  /\ prompt_mode \in {RANDOM, SUBJECT_ARTIST, PROMPT}
  /\ image_base = None
  /\ provider = None
  /\ prompt = ""
  /\ metadata = {}
  /\ artist_text = ""
  /\ title_text = ""
  /\ icons = <<>>
  /\ epd_calls = <<>>
  /\ pc = "run"
  /\ outcome = "running"
  /\ calls = 0
  /\ fetched = [p \in AllProviders |-> 0]
  /\ failed = [p \in AllProviders |-> 0]
  /\ no_image = 0
  /\ saved = <<>>
  /\ composed = FALSE

(***************************************************************************)
(* The except clauses of run(), lines 759-769: what an exception raised    *)
(* inside the try block leads to.                                          *)
(***************************************************************************)
\* the outcome of the run
run_except_outcome(kind) ==
  IF kind = "IOError" THEN "io_error_logged"
  ELSE IF kind = "KeyboardInterrupt" THEN "interrupted"
  ELSE IF kind = "SystemExit" THEN "exit"
  ELSE "crash"

\* the driver calls after it: the KeyboardInterrupt clause closes the display
run_except_epd(kind, log) ==
  IF kind = "KeyboardInterrupt" THEN Append(log, "close") ELSE log

\* the IOError clause logging and run() going on to the crop
run_except_pc_goes_on(kind) == IF kind = "IOError" THEN "compose" ELSE "ended"

\* where run() is after the clause: every clause leaves run()
run_except_pc(kind) == "ended"

\* the run ends with exception `kind` raised inside the try block
Raise(kind) ==
  /\ pc' = run_except_pc(kind)
  /\ outcome' = run_except_outcome(kind)
  /\ epd_calls' = run_except_epd(kind, epd_calls)


\* one more loader call of provider p, failed or not
count_fetch(p, is_failure) ==
  /\ fetched' = [fetched EXCEPT ![p] = @ + 1]
  /\ failed' = IF is_failure THEN [failed EXCEPT ![p] = @ + 1] ELSE failed

(***************************************************************************)
(* run(), lines 683-707: load the display driver, then the --norun check.  *)
(***************************************************************************)
\* the check skipped: run() goes on whatever the flag says
norun_exit_skipped(flag) == FALSE

\* line 705: --norun was given (store_const 1, default 0)
norun_exit(flag) == flag = TRUE

RunStart ==
  /\ pc = "run"
  /\ \E driver_loaded \in BOOLEAN :
       IF ~driver_loaded
       THEN /\ pc' = "ended"
            /\ outcome' = "no_driver"
       ELSE IF norun_exit(norun)
       THEN /\ pc' = "ended"
            /\ outcome' = "norun"
       ELSE /\ pc' = "get_image"
            /\ outcome' = outcome
  /\ UNCHANGED <<norun, mode_warned, warned, result, template_vars, builder_vars,
                 text_box_vars, battery_vars>>
  /\ UNCHANGED <<amount, test_enabled, save_image, prompt_mode, image_base,
                 provider, prompt, metadata, artist_text, title_text, icons,
                 epd_calls, amount0, calls, fetched, failed, no_image, saved,
                 composed>>

(***************************************************************************)
(* get_image, line 574: the provider is drawn.                             *)
(***************************************************************************)
Select ==
  /\ pc = "get_image"
  /\ calls < MaxCalls
  /\ calls' = calls + 1
  /\ \E p \in get_random_provider_mode(amount) :
       IF p = ValueError
       THEN /\ Raise("Exception")
            /\ provider' = provider
       ELSE /\ provider' = p
            /\ pc' = "dispatch"
            /\ UNCHANGED <<outcome, epd_calls>>
  /\ UNCHANGED <<norun, mode_warned, warned, result, template_vars, builder_vars,
                 text_box_vars, battery_vars>>
  /\ UNCHANGED <<amount, test_enabled, save_image, prompt_mode, image_base,
                 prompt, metadata, artist_text, title_text, icons, amount0,
                 fetched, failed, no_image, saved, composed>>

(***************************************************************************)
(* get_image, lines 576-587: an image from a folder. The branch has no     *)
(* check of the image: get_image returns what the loader gave.             *)
(***************************************************************************)
LoadFile(p) ==
  /\ pc = "dispatch"
  /\ provider = p
  /\ \E r \in FileOutcomes, file_artist \in {None, "file_artist"} :
       IF r = "image"
       THEN /\ image_base' = p
            /\ title_text' = "file_title"
            /\ artist_text' = file_artist
            /\ count_fetch(p, FALSE)
            /\ pc' = "returned"
            /\ UNCHANGED <<outcome, epd_calls>>
       ELSE /\ count_fetch(p, TRUE)
            /\ Raise(r)
            /\ UNCHANGED <<image_base, title_text, artist_text>>
  /\ UNCHANGED <<norun, mode_warned, warned, result, template_vars, builder_vars,
                 text_box_vars, battery_vars>>
  /\ UNCHANGED <<amount, test_enabled, save_image, prompt_mode, provider,
                 prompt, metadata, icons, amount0, calls, no_image, saved,
                 composed>>

\* load_external_image
FetchExternal == LoadFile(EXTERNAL)

\* load_historic_image
FetchHistoric == LoadFile(HISTORIC)

(***************************************************************************)
(* get_image, lines 589-637 for a generation API: the prompt is built, the *)
(* provider is asked, an image that came is saved when save_image is set.  *)
(***************************************************************************)
FetchGenerated ==
  /\ pc = "dispatch"
  /\ provider \in Generators
  /\ \E m \in built_modes(prompt_mode), r \in ApiOutcomes :
       LET pp == prep_prompt_text(m, artist_text)
       IN /\ prompt' = pp.prompt
          /\ mode_warned' = mode_warned + prep_prompt_text_warned(m)
          /\ metadata' = pp.metadata
          /\ artist_text' = pp.artist_text
          /\ title_text' = pp.title_text
          /\ IF r = "image"
             THEN /\ image_base' = provider
                  /\ count_fetch(provider, FALSE)
                  /\ saved' = IF save_image
                              THEN Append(saved, <<pp.prompt, provider, pp.metadata>>)
                              ELSE saved
                  /\ pc' = "returned"
                  /\ UNCHANGED <<no_image, outcome, epd_calls>>
             ELSE IF r = None
             THEN /\ image_base' = None
                  /\ count_fetch(provider, TRUE)
                  /\ no_image' = no_image + 1
                  /\ pc' = "returned"
                  /\ UNCHANGED <<saved, outcome, epd_calls>>
             ELSE /\ count_fetch(provider, TRUE)
                  /\ Raise(r)
                  /\ UNCHANGED <<image_base, no_image, saved>>
  /\ UNCHANGED <<norun, warned, result, template_vars, builder_vars,
                 text_box_vars, battery_vars>>
  /\ UNCHANGED <<amount, test_enabled, save_image, prompt_mode, provider,
                 icons, amount0, calls, composed>>

(***************************************************************************)
(* get_image, lines 589-606: the test provider with test_enabled set.      *)
(***************************************************************************)
\* the test branch taken without looking at test_enabled
test_run_always(provider_type, enabled) == provider_type = TEST

\* line 595: the test branch is taken
test_run(provider_type, enabled) == provider_type = TEST /\ enabled = TRUE

FetchTest ==
  /\ pc = "dispatch"
  /\ test_run(provider, test_enabled)
  /\ \E m \in built_modes(prompt_mode), r \in TestOutcomes :
       LET pp == prep_prompt_text(m, artist_text)
       IN /\ prompt' = pp.prompt
          /\ mode_warned' = mode_warned + prep_prompt_text_warned(m)
          /\ metadata' = pp.metadata
          /\ IF r = "image"
             THEN /\ image_base' = TEST
                  /\ title_text' = "test_title"
                  /\ artist_text' = "test_artist"
                  /\ save_image' = FALSE
                  /\ count_fetch(TEST, FALSE)
                  /\ pc' = "returned"
                  /\ UNCHANGED <<outcome, epd_calls>>
             ELSE /\ title_text' = pp.title_text
                  /\ artist_text' = pp.artist_text
                  /\ count_fetch(TEST, TRUE)
                  /\ Raise(r)
                  /\ UNCHANGED <<image_base, save_image>>
  /\ UNCHANGED <<norun, warned, result, template_vars, builder_vars,
                 text_box_vars, battery_vars>>
  /\ UNCHANGED <<amount, test_enabled, prompt_mode, provider, icons, amount0,
                 calls, no_image, saved, composed>>

(***************************************************************************)
(* get_image, lines 589-627: the test provider with test_enabled not set   *)
(* is the invalid provider: a warning, then exit().                        *)
(***************************************************************************)
InvalidProvider ==
  /\ pc = "dispatch"
  /\ provider \notin Providers
  /\ ~test_run(provider, test_enabled)
  /\ \E m \in built_modes(prompt_mode) :
       LET pp == prep_prompt_text(m, artist_text)
       IN /\ prompt' = pp.prompt
          /\ mode_warned' = mode_warned + prep_prompt_text_warned(m)
          /\ metadata' = pp.metadata
          /\ artist_text' = pp.artist_text
          /\ title_text' = pp.title_text
  /\ pc' = "ended"
  /\ outcome' = "exhausted"
  /\ UNCHANGED <<norun, warned, result, template_vars, builder_vars,
                 text_box_vars, battery_vars>>
  /\ UNCHANGED <<amount, test_enabled, save_image, prompt_mode, image_base,
                 provider, icons, epd_calls, amount0, calls, fetched, failed,
                 no_image, saved, composed>>


(***************************************************************************)
(* get_image_fallback_modes, lines 641-652, and the check of run() at      *)
(* lines 712-714.                                                          *)
(***************************************************************************)
\* the loop never seeing a failure
image_failed_never(image) == FALSE

\* line 644: the attempt failed
image_failed(image) == image = None

\* line 712: run() has no image to show
run_no_image(image) == image = None

\* line 637: what get_image returns
get_image_return(image, provider_type) == <<image, provider_type>>

\* get_image_fallback_modes returning what get_image returned
get_image_fallback_modes_return_both(image, provider_name) ==
  get_image_return(image, provider_name)

\* line 652: what get_image_fallback_modes returns
get_image_fallback_modes_return(image, provider_name) == <<image>>

\* lines 645-651: the provider is removed and the error icon added
Exclude ==
  /\ pc = "returned"
  /\ image_failed(image_base)
  /\ amount' = remove_provider_mode(amount, provider)
  /\ warned' = warned + (IF remove_provider_mode_warns(provider) THEN 1 ELSE 0)
  /\ icons' = add_exception_icon(icons)
  /\ pc' = "get_image"
  /\ UNCHANGED <<norun, mode_warned, result, template_vars, builder_vars,
                 text_box_vars, battery_vars>>
  /\ UNCHANGED <<test_enabled, save_image, prompt_mode, image_base, provider,
                 prompt, metadata, artist_text, title_text, epd_calls,
                 outcome, amount0, calls, fetched, failed, no_image, saved,
                 composed>>

\* line 652 and lines 712-714: the loop is left, run() goes on with the image
LoopExit ==
  /\ pc = "returned"
  /\ ~image_failed(image_base)
  /\ result' = get_image_fallback_modes_return(image_base, provider)
  /\ IF run_no_image(image_base)
     THEN /\ pc' = "ended"
          /\ outcome' = "no_image"
     ELSE /\ pc' = "compose"
          /\ outcome' = outcome
  /\ UNCHANGED <<norun, mode_warned, warned, template_vars, builder_vars,
                 text_box_vars, battery_vars>>
  /\ UNCHANGED <<amount, test_enabled, save_image, prompt_mode, image_base,
                 provider, prompt, metadata, artist_text, title_text, icons,
                 epd_calls, amount0, calls, fetched, failed, no_image, saved,
                 composed>>

(***************************************************************************)
(* run(), lines 716-754: crop, battery icon, icons, status shape, text.    *)
(***************************************************************************)
\* the charge levels a run is started with (charge_level defaults to -1)
ChargeLevels == {-1, 0, 20, 50, 100}

Compose ==
  /\ pc = "compose"
  /\ \E show_battery_icon \in BOOLEAN, charge_level \in ChargeLevels :
       icons' = IF show_battery_icon
                THEN add_battery_icon(icons, charge_level)
                ELSE icons
  /\ composed' = TRUE
  /\ pc' = "display"
  /\ UNCHANGED <<norun, mode_warned, warned, result, template_vars, builder_vars,
                 text_box_vars, battery_vars>>
  /\ UNCHANGED <<amount, test_enabled, save_image, prompt_mode, image_base,
                 provider, prompt, metadata, artist_text, title_text,
                 epd_calls, outcome, amount0, calls, fetched, failed,
                 no_image, saved>>

(***************************************************************************)
(* display_image_on_epd, lines 251-259, called at line 756: prepare,       *)
(* display, close; any of the three driver calls can raise.                *)
(***************************************************************************)
epd_sequence == <<"prepare", "display", "close">>

Display ==
  /\ pc = "display"
  /\ \E n \in 1..Len(epd_sequence),
        r \in {"ok", "IOError", "KeyboardInterrupt"} :
       LET done == IF r = "ok" THEN epd_sequence ELSE SubSeq(epd_sequence, 1, n)
       IN IF r = "ok"
          THEN /\ epd_calls' = epd_calls \o done
               /\ pc' = "ended"
               /\ outcome' = "displayed"
          ELSE /\ epd_calls' = run_except_epd(r, epd_calls \o done)
               /\ pc' = run_except_pc(r)
               /\ outcome' = run_except_outcome(r)
  /\ UNCHANGED <<norun, mode_warned, warned, result, template_vars, builder_vars,
                 text_box_vars, battery_vars>>
  /\ UNCHANGED <<amount, test_enabled, save_image, prompt_mode, image_base,
                 provider, prompt, metadata, artist_text, title_text, icons,
                 amount0, calls, fetched, failed, no_image, saved, composed>>

Next ==
  \/ RunStart
  \/ Select
  \/ FetchExternal
  \/ FetchHistoric
  \/ FetchGenerated
  \/ FetchTest
  \/ InvalidProvider
  \/ Exclude
  \/ LoopExit
  \/ Compose
  \/ Display

Spec == Init /\ [][Next]_vars

(***************************************************************************)
(* get_random_provider_mode alone, on every table of amounts between       *)
(* -MaxAmount and MaxAmount (the config takes any integer): one call.      *)
(***************************************************************************)
ChooseInit ==
  /\ amount \in [Providers -> (0 - MaxAmount)..MaxAmount]
  /\ norun = FALSE
  /\ mode_warned = 0
  /\ warned = 0
  /\ result = <<>>
  /\ TemplateIdle
  /\ BuilderIdle
  /\ TextBoxIdle
  /\ BatteryIdle
  /\ amount0 = amount
  /\ test_enabled = TRUE
  /\ save_image = TRUE
  /\ prompt_mode = PROMPT
  /\ image_base = None
  /\ provider = None
  /\ prompt = ""
  /\ metadata = {}
  /\ artist_text = ""
  /\ title_text = ""
  /\ icons = <<>>
  /\ epd_calls = <<>>
  /\ pc = "choose"
  /\ outcome = "running"
  /\ calls = 0
  /\ fetched = [p \in AllProviders |-> 0]
  /\ failed = [p \in AllProviders |-> 0]
  /\ no_image = 0
  /\ saved = <<>>
  /\ composed = FALSE

Choose ==
  /\ pc = "choose"
  /\ pc' = "chosen"
  /\ \E p \in get_random_provider_mode(amount) :
       IF p = ValueError
       THEN provider' = provider /\ outcome' = "crash"
       ELSE provider' = p /\ outcome' = outcome
  /\ UNCHANGED <<norun, mode_warned, warned, result, template_vars, builder_vars,
                 text_box_vars, battery_vars>>
  /\ UNCHANGED <<amount, test_enabled, save_image, prompt_mode, image_base,
                 prompt, metadata, artist_text, title_text, icons, epd_calls,
                 amount0, calls, fetched, failed, no_image, saved, composed>>

ChooseSpec == ChooseInit /\ [][Choose]_vars

(***************************************************************************)
(* The state of a Pycasso object whose run() is not under way: what the    *)
(* specifications of single methods start from.                            *)
(***************************************************************************)
RunIdle ==
  /\ norun = FALSE
  /\ mode_warned = 0
  /\ warned = 0
  /\ result = <<>>
  /\ test_enabled = TRUE
  /\ save_image = TRUE
  /\ prompt_mode = PROMPT
  /\ image_base = None
  /\ prompt = ""
  /\ metadata = {}
  /\ artist_text = ""
  /\ title_text = ""
  /\ icons = <<>>
  /\ epd_calls = <<>>
  /\ outcome = "running"
  /\ calls = 0
  /\ fetched = [p \in AllProviders |-> 0]
  /\ failed = [p \in AllProviders |-> 0]
  /\ no_image = 0
  /\ saved = <<>>
  /\ composed = FALSE

(***************************************************************************)
(* remove_provider_mode alone, lines 505-518: two calls with the same      *)
(* mode, on every table of amounts and every mode, the test provider and   *)
(* a value that is no provider included.                                   *)
(***************************************************************************)
\* a mode that is none of the ProvidersConst values
UNKNOWN_MODE == "unknown"

RemoveModes == AllProviders \cup {UNKNOWN_MODE}

RemoveInit ==
  /\ amount \in [Providers -> 0..MaxAmount]
  /\ amount0 = amount
  /\ provider = None
  /\ pc = "remove"
  /\ RunIdle
  /\ TemplateIdle
  /\ BuilderIdle
  /\ TextBoxIdle
  /\ BatteryIdle

Remove ==
  /\ pc \in {"remove", "removed"}
  /\ \E mode \in RemoveModes :
       /\ pc = "removed" => mode = provider
       /\ provider' = mode
       /\ amount' = remove_provider_mode(amount, mode)
       /\ warned' = warned + (IF remove_provider_mode_warns(mode) THEN 1 ELSE 0)
  /\ pc' = IF pc = "remove" THEN "removed" ELSE "removed_twice"
  /\ UNCHANGED <<norun, mode_warned, result, template_vars, builder_vars, text_box_vars, battery_vars>>
  /\ UNCHANGED <<test_enabled, save_image, prompt_mode, image_base, prompt,
                 metadata, artist_text, title_text, icons, epd_calls, outcome,
                 amount0, calls, fetched, failed, no_image, saved, composed>>

RemoveSpec == RemoveInit /\ [][Remove]_vars

(***************************************************************************)
(* The template engine. A text is a sequence of tokens: a bracket, the     *)
(* separator of the alternatives, or a piece of plain text.                *)
(***************************************************************************)
\* the brackets of the bracket pairs
CURLY == <<"{", "}">>
SQUARE == <<"[", "]">>

\* the separator of the alternatives inside a span
SEPARATOR == "|"

Tokens == {CURLY[1], CURLY[2], SQUARE[1], SQUARE[2], SEPARATOR, "x", "y"}

\* the texts of at most n tokens
Texts(n) == UNION {[1..k -> Tokens] : k \in 0..n}

\* the place of the first tok in line at or after lo, 0 when there is none
index_from(line, tok, lo) ==
  LET found == {i \in lo..Len(line) : line[i] = tok}
  IN IF found = {} THEN 0 ELSE CHOOSE i \in found : \A j \in found : i <= j

RECURSIVE split(_)
\* the alternatives written in the inside of a span
split(inside) ==
  LET k == index_from(inside, SEPARATOR, 1)
  IN IF k = 0 THEN {inside}
     ELSE {SubSeq(inside, 1, k - 1)}
            \cup split(SubSeq(inside, k + 1, Len(inside)))

RECURSIVE parse_text(_, _, _)
\* FileOperations.parse_text: every bracket_one ... bracket_two of the text,
\* from the left, gives way to one of its alternatives; a bracket without
\* its partner stays. The set of the texts it can return.
parse_text(text_in, bracket_one, bracket_two) ==
  LET i == index_from(text_in, bracket_one, 1)
      j == IF i = 0 THEN 0 ELSE index_from(text_in, bracket_two, i + 1)
  IN IF i = 0 \/ j = 0 THEN {text_in}
     ELSE {SubSeq(text_in, 1, i - 1) \o option \o rest :
             option \in split(SubSeq(text_in, i + 1, j - 1)),
             rest \in parse_text(SubSeq(text_in, j + 1, Len(text_in)),
                                 bracket_one, bracket_two)}

\* the pairs in the order they were declared: no pairs.reverse()
reversed_kept(pairs) == pairs

\* lines 426-427: pairs = bracket_pairs.copy(); pairs.reverse()
reversed(pairs) == [i \in 1..Len(pairs) |-> pairs[Len(pairs) + 1 - i]]

RECURSIVE parse_pairs(_, _)
\* lines 428-429: the loop over the pairs, each pass on the text of the last
parse_pairs(text_in, pairs) ==
  IF pairs = <<>> THEN {text_in}
  ELSE UNION {parse_pairs(t, Tail(pairs)) :
                t \in parse_text(text_in, Head(pairs)[1], Head(pairs)[2])}

\* parse_multiple_brackets, lines 424-430: the texts it can return
parse_multiple_brackets(text_in, pairs) == parse_pairs(text_in, reversed(pairs))

(***************************************************************************)
(* parse_multiple_brackets alone, pass by pass, on every text of at most   *)
(* MaxTextLen tokens and on the two texts below.                           *)
(***************************************************************************)
\* "a {x|y} b"
ExampleText == <<"a ", "{", "x", "|", "y", "}", " b">>

\* "[{x|y} sky|sea]"
NestedText == <<"[", "{", "x", "|", "y", "}", " sky", "|", "sea", "]">>

\* the lists of bracket pairs a call is made with
PairLists == {<<>>, <<CURLY>>, <<SQUARE, CURLY>>, <<CURLY, SQUARE>>}

TemplateInit ==
  /\ text0 \in Texts(MaxTextLen) \cup {ExampleText, NestedText}
  /\ text = text0
  /\ bracket_pairs \in PairLists
  /\ passes = <<>>
  /\ pc = "parse"
  /\ amount = [p \in Providers |-> 0]
  /\ amount0 = amount
  /\ provider = None
  /\ RunIdle
  /\ BuilderIdle
  /\ TextBoxIdle
  /\ BatteryIdle

\* the loop left after its first pass
passes_left_one(done, pairs) == done < 1 /\ done < Len(pairs)

\* line 428, for brackets in pairs: there is a pair the loop has not had yet
passes_left(done, pairs) == done < Len(pairs)

\* lines 428-429: one pass of the loop
ParsePass ==
  /\ pc = "parse"
  /\ passes_left(Len(passes), bracket_pairs)
  /\ LET brackets == reversed(bracket_pairs)[Len(passes) + 1]
     IN \E t \in parse_text(text, brackets[1], brackets[2]) :
          /\ text' = t
          /\ passes' = Append(passes, <<brackets, text, t>>)
  /\ UNCHANGED <<text0, bracket_pairs, pc>>
  /\ UNCHANGED <<run_vars, builder_vars, text_box_vars, battery_vars>>

\* line 430: return text
ParseReturn ==
  /\ pc = "parse"
  /\ ~passes_left(Len(passes), bracket_pairs)
  /\ pc' = "parsed"
  /\ UNCHANGED <<template_vars, run_vars, builder_vars, text_box_vars, battery_vars>>

TemplateNext ==
  \/ ParsePass
  \/ ParseReturn

TemplateSpec == TemplateInit /\ [][TemplateNext]_vars

(***************************************************************************)
(* The prompt builders, lines 432-464. The two lines that get_random_line  *)
(* reads from the files are inputs, as are the parts of the config.        *)
(***************************************************************************)
\* lines 438-443 and 457-460: a part is parsed when parse is set
parsed_if(parse, line, brackets) ==
  IF parse THEN parse_multiple_brackets(line, brackets) ELSE {line}

\* prep_subject_artist_prompt with the artist put before the title
prep_subject_artist_prompt_artist_first(p) ==
  {<<preamble \o a \o connector \o t \o postscript, a, t>> :
     a \in parsed_if(p.parse, p.artist, p.brackets),
     t \in parsed_if(p.parse, p.title, p.brackets),
     preamble \in parsed_if(p.parse, p.preamble, p.brackets),
     connector \in parsed_if(p.parse, p.connector, p.brackets),
     postscript \in parsed_if(p.parse, p.postscript, p.brackets)}

\* prep_subject_artist_prompt, lines 432-449: the (prompt, artist_text,
\* title_text) it can return
prep_subject_artist_prompt(p) ==
  {<<preamble \o t \o connector \o a \o postscript, a, t>> :
     a \in parsed_if(p.parse, p.artist, p.brackets),
     t \in parsed_if(p.parse, p.title, p.brackets),
     preamble \in parsed_if(p.parse, p.preamble, p.brackets),
     connector \in parsed_if(p.parse, p.connector, p.brackets),
     postscript \in parsed_if(p.parse, p.postscript, p.brackets)}

\* prep_normal_prompt, lines 451-464: the (prompt, title_text) it can return
prep_normal_prompt(p) ==
  {<<preamble \o t \o postscript, t>> :
     t \in parsed_if(p.parse, p.title, p.brackets),
     preamble \in parsed_if(p.parse, p.preamble, p.brackets),
     postscript \in parsed_if(p.parse, p.postscript, p.brackets)}

\* the lines and the parts the builders are called with
ArtistLines == {<<"monet">>, <<"{", "monet", "|", "dali", "}">>}
SubjectLines == {<<"a cat">>, <<"a ", "[", "red", "|", "{", "big", "}", "]", " dog">>}
Preambles == {<<>>, <<"{", "oil", "|", "ink", "}", " of ">>}
Connectors == {<<" by ">>, <<"{", " by ", "|", " after ", "}">>}
Postscripts == {<<>>, <<", ", "[", "hd", "|", "4k", "]">>}
BracketLists == {<<CURLY>>, <<SQUARE, CURLY>>}

PromptInit ==
  /\ parts \in [artist : ArtistLines, title : SubjectLines,
                 preamble : Preambles, connector : Connectors,
                 postscript : Postscripts, brackets : BracketLists,
                 parse : BOOLEAN]
  /\ built = <<>>
  /\ pc = "build"
  /\ amount = [p \in Providers |-> 0]
  /\ amount0 = amount
  /\ provider = None
  /\ RunIdle
  /\ TemplateIdle
  /\ TextBoxIdle
  /\ BatteryIdle

PrepSubjectArtist ==
  /\ pc = "build"
  /\ built' \in prep_subject_artist_prompt(parts)
  /\ pc' = "built_subject_artist"
  /\ UNCHANGED <<parts, run_vars, template_vars, text_box_vars, battery_vars>>

PrepNormal ==
  /\ pc = "build"
  /\ built' \in prep_normal_prompt(parts)
  /\ pc' = "built_normal"
  /\ UNCHANGED <<parts, run_vars, template_vars, text_box_vars, battery_vars>>

PromptNext ==
  \/ PrepSubjectArtist
  \/ PrepNormal

PromptSpec == PromptInit /\ [][PromptNext]_vars

(***************************************************************************)
(* add_text_to_image, lines 520-571. A box is (left, top, right, bottom).  *)
(* The draw object measures a text anchored at the middle of its bottom    *)
(* edge ("mb"): the box lies above the anchor, half of it on each side.    *)
(***************************************************************************)
\* the texts a call is made with
BoxTexts == {None, "", "short", "long line"}

\* the font metrics: half the width and the height of a rendered text
half_width(t) == CASE t = "short" -> 3 [] t = "long line" -> 7 [] OTHER -> 0
height(t) == CASE t = "short" -> 4 [] t = "long line" -> 5 [] OTHER -> 0

\* draw.textbbox(xy, text, font, anchor="mb")
textbbox(xy, t) ==
  <<xy[1] - half_width(t), xy[2] - height(t), xy[1] + half_width(t), xy[2]>>

min_of(a, b) == IF a <= b THEN a ELSE b
max_of(a, b) == IF a >= b THEN a ELSE b

RECURSIVE max_area_from(_, _)
\* ImageFunctions.max_area: the loop over the boxes, from the box so far
max_area_from(box, area_list) ==
  IF area_list = <<>> THEN box
  ELSE LET t == Head(area_list)
       IN max_area_from(<<min_of(box[1], t[1]), min_of(box[2], t[2]),
                          max_of(box[3], t[3]), max_of(box[4], t[4])>>,
                        Tail(area_list))

\* ImageFunctions.max_area: the smallest box around the boxes of the list
max_area(area_list) == max_area_from(Head(area_list), area_list)

\* ImageFunctions.set_tuple_bottom
set_tuple_bottom(box, bottom) == <<box[1], box[2], box[3], bottom>>

\* ImageFunctions.set_tuple_sides
set_tuple_sides(box, left, right) == <<left, box[2], right, box[4]>>

\* numpy.add on two 4-tuples
numpy_add(box, delta) == [i \in 1..4 |-> box[i] + delta[i]]

\* the test of lines 542 and 546 without its second half
has_text_unless_empty(t) == t # ""

\* lines 542 and 546: text != "" and text is not None
has_text(t) == t # "" /\ t # None

\* lines 536, 545 and 549: the proceed flag
proceed(a) == has_text(a.artist_text) \/ has_text(a.title_text)

\* the anchors of the two lines
artist_xy(a) == <<a.epd_width \div 2, a.image_height - a.artist_location>>
title_xy(a) == <<a.epd_width \div 2, a.image_height - a.title_location>>

\* line 539: the box a line has before it is measured
unmeasured_box(a) == <<0, a.image_height, 0, a.image_height>>

\* lines 539-544
artist_box(a) ==
  IF has_text(a.artist_text) THEN textbbox(artist_xy(a), a.artist_text)
  ELSE unmeasured_box(a)

\* lines 540 and 546-548
title_box(a) ==
  IF has_text(a.title_text) THEN textbbox(title_xy(a), a.title_text)
  ELSE unmeasured_box(a)

\* draw_box without lines 558-560: crop_right is used as it came
draw_box_crop_right_as_given(a) ==
  LET padded == numpy_add(max_area(<<artist_box(a), title_box(a)>>),
                          <<0 - a.padding, 0 - a.padding, a.padding, a.padding>>)
      floored == IF a.box_to_floor
                 THEN set_tuple_bottom(padded, a.image_height)
                 ELSE padded
  IN IF a.box_to_edge
     THEN set_tuple_sides(floored, 0 - a.crop_left, a.crop_right)
     ELSE floored

\* lines 551-563: the box that is handed to draw.rectangle
draw_box(a) ==
  LET padded == numpy_add(max_area(<<artist_box(a), title_box(a)>>),
                          <<0 - a.padding, 0 - a.padding, a.padding, a.padding>>)
      floored == IF a.box_to_floor
                 THEN set_tuple_bottom(padded, a.image_height)
                 ELSE padded
      crop_right == IF a.crop_right = 0 THEN a.epd_width ELSE a.crop_right
  IN IF a.box_to_edge
     THEN set_tuple_sides(floored, 0 - a.crop_left, crop_right)
     ELSE floored

\* lines 565-571: the calls made on the draw object. draw.text is handed
\* the text as it is: none_raises says whether a None makes it raise
add_text_to_image(a, none_raises) ==
  LET rectangle == <<"rectangle", draw_box(a)>>
      artist == <<"text", artist_xy(a), a.artist_text>>
      title == <<"text", title_xy(a), a.title_text>>
  IN IF ~proceed(a) THEN <<>>
     ELSE IF a.artist_text = None /\ none_raises THEN <<rectangle>>
     ELSE IF a.title_text = None /\ none_raises THEN <<rectangle, artist>>
     ELSE <<rectangle, artist, title>>

TextBoxInit ==
  /\ box_args \in [image_height : {30}, epd_width : {20},
                    title_text : BoxTexts, artist_text : BoxTexts,
                    title_location : {12}, artist_location : {0, 4},
                    padding : {0, 2},
                    box_to_floor : BOOLEAN, box_to_edge : BOOLEAN,
                    crop_left : {0, 3}, crop_right : {0, 17}]
  /\ drawn = <<>>
  /\ pc = "add_text"
  /\ amount = [p \in Providers |-> 0]
  /\ amount0 = amount
  /\ provider = None
  /\ RunIdle
  /\ TemplateIdle
  /\ BuilderIdle
  /\ BatteryIdle

AddText ==
  /\ pc = "add_text"
  /\ \E none_raises \in BOOLEAN :
       drawn' = add_text_to_image(box_args, none_raises)
  /\ pc' = "text_added"
  /\ UNCHANGED <<box_args, run_vars, template_vars, builder_vars,
                 battery_vars>>

TextBoxSpec == TextBoxInit /\ [][AddText]_vars

(***************************************************************************)
(* One draw of get_random_provider_mode on every table of weights between  *)
(* 0 and MaxWeight.                                                        *)
(***************************************************************************)
DrawInit ==
  /\ amount \in [Providers -> 0..MaxWeight]
  /\ amount0 = amount
  /\ provider = None
  /\ pc = "choose"
  /\ RunIdle
  /\ TemplateIdle
  /\ BuilderIdle
  /\ TextBoxIdle
  /\ BatteryIdle

DrawSpec == DrawInit /\ [][Choose]_vars

(***************************************************************************)
(* The run of a config whose prompt_mode is none of the three modes.       *)
(***************************************************************************)
InvalidModeInit ==
  /\ amount \in [Providers -> {0, 1}]
  /\ amount0 = amount
  /\ norun = FALSE
  /\ test_enabled \in BOOLEAN
  /\ save_image \in BOOLEAN
  /\ prompt_mode = INVALID_MODE
  /\ artist_text \in {"", "artist_line"}
  /\ mode_warned = 0
  /\ warned = 0
  /\ result = <<>>
  /\ image_base = None
  /\ provider = None
  /\ prompt = ""
  /\ metadata = {}
  /\ title_text = ""
  /\ icons = <<>>
  /\ epd_calls = <<>>
  /\ pc = "run"
  /\ outcome = "running"
  /\ calls = 0
  /\ fetched = [p \in AllProviders |-> 0]
  /\ failed = [p \in AllProviders |-> 0]
  /\ no_image = 0
  /\ saved = <<>>
  /\ composed = FALSE
  /\ TemplateIdle
  /\ BuilderIdle
  /\ TextBoxIdle
  /\ BatteryIdle

InvalidModeSpec == InvalidModeInit /\ [][Next]_vars

(***************************************************************************)
(* add_battery_icon alone, lines 654-677, on every level from below 0 to   *)
(* above 100, with and without an icon in the list already.                *)
(***************************************************************************)
BatteryInit ==
  /\ battery_args \in {<<level>> : level \in (0 - 3)..103}
  /\ pc = "add_battery_icon"
  /\ amount = [p \in Providers |-> 0]
  /\ amount0 = amount
  /\ provider = None
  /\ \E had_icon \in BOOLEAN :
       /\ norun = FALSE
       /\ mode_warned = 0
       /\ warned = 0
       /\ result = <<>>
       /\ test_enabled = TRUE
       /\ save_image = TRUE
       /\ prompt_mode = PROMPT
       /\ image_base = None
       /\ prompt = ""
       /\ metadata = {}
       /\ artist_text = ""
       /\ title_text = ""
       /\ icons = IF had_icon THEN <<ICON_EXCEPTION>> ELSE <<>>
       /\ epd_calls = <<>>
       /\ outcome = "running"
       /\ calls = 0
       /\ fetched = [p \in AllProviders |-> 0]
       /\ failed = [p \in AllProviders |-> 0]
       /\ no_image = IF had_icon THEN 1 ELSE 0
       /\ saved = <<>>
       /\ composed = FALSE
  /\ TemplateIdle
  /\ BuilderIdle
  /\ TextBoxIdle

AddBatteryIcon ==
  /\ pc = "add_battery_icon"
  /\ icons' = add_battery_icon(icons, battery_args[1])
  /\ pc' = "battery_icon_added"
  /\ UNCHANGED <<amount, test_enabled, save_image, prompt_mode, image_base,
                 provider, prompt, metadata, artist_text, title_text,
                 epd_calls, outcome, amount0, calls, fetched, failed,
                 no_image, saved, composed, norun, mode_warned, warned,
                 result>>
  /\ UNCHANGED <<template_vars, builder_vars, text_box_vars, battery_vars>>

BatterySpec == BatteryInit /\ [][AddBatteryIcon]_vars

\* the run is one sequential thread: a step that can be taken is taken
FairSpec == Spec /\ WF_vars(Next)


(***************************************************************************)
(* Vocabulary of the properties.                                           *)
(***************************************************************************)
\* numberOfSources: the providers of the weight table
NumberOfSources == Len(provider_types)

\* the sources the run was configured with
Configured == {p \in Providers : amount0[p] > 0}

\* the sources still in circulation
Live == {p \in Providers : amount[p] > 0}

\* the sources an Exclude transition took out of circulation
Excluded == {p \in Providers : amount0[p] > 0 /\ amount[p] = 0}

\* the acquisition loop is running: Select, Fetch or Exclude is next
InLoop == pc \in {"get_image", "dispatch", "returned"}

\* get_image_fallback_modes was entered and has been left, one way or another
LoopLeft == pc \in {"compose", "display"} \/ (pc = "ended" /\ calls > 0)

\* the loop was left by returning an image
ReturnedImage == pc \in {"compose", "display"} \/ composed

\* the run ended at the invalid-provider exit: no source is left to try
Exhausted == pc = "ended" /\ outcome = "exhausted"

\* an exception left the loop
RaisedInLoop ==
  /\ pc = "ended"
  /\ ~composed
  /\ outcome \in {"io_error_logged", "interrupted", "exit", "crash"}

RECURSIVE count_in(_, _)
\* how often x occurs in the sequence s
count_in(x, s) ==
  IF s = <<>> THEN 0
  ELSE (IF Head(s) = x THEN 1 ELSE 0) + count_in(x, Tail(s))

\* the error icons of the icon sequence
ErrorIcons == count_in(ICON_EXCEPTION, icons)

(***************************************************************************)
(* C1: for every table of non-negative weights and every pattern of        *)
(* provider successes and failures, the acquisition loop terminates, and   *)
(* it never makes more than numberOfSources + 1 calls of get_image (nor    *)
(* more than one per configured source plus one).                          *)
(***************************************************************************)
C1_BoundedTermination ==
  /\ [](calls <= NumberOfSources + 1 /\ calls <= Cardinality(Configured) + 1)
  /\ (InLoop ~> LoopLeft)

\* the longest run of the loop: every source is configured, each generation
\* API gave no image (a file provider gives an image or raises, and either
\* ends the loop), and one more call ended the loop
C1_Witness ==
  /\ Configured = Providers
  /\ \A p \in Generators : failed[p] = 1 /\ amount[p] = 0
  /\ calls = Cardinality(Generators) + 1
  /\ LoopLeft

(***************************************************************************)
(* C2.  Every configured source has failed in this run.                    *)
(***************************************************************************)
AllConfiguredFailed == \A p \in Configured : failed[p] > 0

(***************************************************************************)
(* C2 as claimed: acquireImage ends in AllSourcesExhausted iff every       *)
(* configured source failed: when all of them (there is at least one)      *)
(* failed it never ends by returning an image, and exhaustion is never     *)
(* signalled while some configured source has not failed.                  *)
(***************************************************************************)
C2_Original ==
  /\ (Configured # {} /\ AllConfiguredFailed => ~ReturnedImage)
  /\ (Exhausted => AllConfiguredFailed)

(***************************************************************************)
(* C2 amended: exhaustion is signalled only when every configured source   *)
(* has failed, every weight is 0 and test mode is off; the test source is  *)
(* selected only after every configured source has failed; and when every  *)
(* configured source has failed, an image the loop returns is the test     *)
(* image, with test mode on.  When the last weight has been zeroed the     *)
(* loop makes one more attempt: it ends exhausted if test mode is off and  *)
(* loads the test image if it is on.                                       *)
(***************************************************************************)
C2_ExhaustedOnlyWithoutTestMode ==
  /\ (Exhausted =>
        AllConfiguredFailed /\ Live = {} /\ test_enabled # TRUE)
  /\ (pc = "dispatch" /\ provider = TEST => AllConfiguredFailed /\ Live = {})
  /\ (Configured # {} /\ AllConfiguredFailed /\ ReturnedImage =>
        image_base = TEST /\ test_enabled = TRUE /\ fetched[TEST] = 1)
  /\ (Live = {} /\ LoopLeft /\ ~RaisedInLoop =>
        IF test_enabled = TRUE THEN ReturnedImage /\ image_base = TEST
        ELSE Exhausted)

\* every configured source failed, test mode is on, and the loop returned
\* the test image
C2_Witness ==
  /\ Cardinality(Configured) >= 2
  /\ AllConfiguredFailed
  /\ pc = "compose"
  /\ image_base = TEST

(***************************************************************************)
(* C3: within one run a source whose fetch failed is never fetched again:  *)
(* no source has more than one failed fetch, a source that failed was      *)
(* fetched exactly once, and the source about to be fetched has not        *)
(* failed before.                                                          *)
(***************************************************************************)
C3_NoRefetchAfterFailure ==
  /\ \A p \in AllProviders :
       /\ failed[p] <= 1
       /\ (failed[p] = 1 => fetched[p] = 1)
  /\ (pc = "dispatch" => failed[provider] = 0)

\* a source failed, and the next Select picked another configured source
C3_Witness ==
  /\ pc = "dispatch"
  /\ provider \in Providers
  /\ \E p \in Providers : failed[p] = 1 /\ amount0[provider] > 0

(***************************************************************************)
(* C4: exclusion is permanent: no step of a run raises the weight of a     *)
(* source, and a source whose weight is 0 keeps weight 0.                  *)
(***************************************************************************)
C4_ExclusionPermanent ==
  [][\A p \in Providers :
       /\ amount'[p] <= amount[p]
       /\ (amount[p] = 0 => amount'[p] = 0)]_vars

\* two sources are excluded and the loop goes on selecting
C4_Witness ==
  /\ Cardinality(Excluded) >= 2
  /\ pc = "get_image"


(***************************************************************************)
(* C5: when the sum of the weights is <= 0, get_random_provider_mode       *)
(* returns the test source, whatever is drawn, and raises nothing.         *)
(***************************************************************************)
C5_ZeroTotalGivesTest ==
  /\ (total_amounts(amount) <= 0 => get_random_provider_mode(amount) = {TEST})
  /\ (pc = "chosen" /\ total_amounts(amount) <= 0 =>
        provider = TEST /\ outcome # "crash")

\* a call on a table with weights of both signs that sum to less than 0 has
\* returned the test source
C5_Witness ==
  /\ pc = "chosen"
  /\ total_amounts(amount) < 0
  /\ \E p \in Providers : amount[p] > 0
  /\ provider = TEST

(***************************************************************************)
(* C6 as claimed: started with every weight 0, acquireImage returns the    *)
(* test source's image, and no image loader of a configured kind (folder,  *)
(* history, generation API) is called at any point of the run.             *)
(***************************************************************************)
C6_Original ==
  (\A p \in Providers : amount0[p] = 0) =>
     /\ \A p \in Providers : fetched[p] = 0
     /\ (LoopLeft => ReturnedImage /\ image_base = TEST)

(***************************************************************************)
(* C6 amended: started with every weight 0, no image loader of a           *)
(* configured kind is called at any point of the run and the one call of   *)
(* get_image selects the test source; it returns the test image when       *)
(* test_enabled is set (unless loading the test image raises), and with    *)
(* test_enabled not set the run ends at the invalid-provider exit with no  *)
(* image.                                                                  *)
(***************************************************************************)
C6_ZeroTableUsesTestSource ==
  (\A p \in Providers : amount0[p] = 0) =>
     /\ \A p \in Providers : fetched[p] = 0
     /\ calls <= 1
     /\ (pc \in {"dispatch", "returned"} => provider = TEST)
     /\ (ReturnedImage => image_base = TEST /\ test_enabled = TRUE)
     /\ (LoopLeft /\ test_enabled = TRUE /\ ~ReturnedImage =>
           RaisedInLoop /\ failed[TEST] = 1)
     /\ (LoopLeft /\ test_enabled # TRUE => Exhausted /\ image_base = None)

\* the table was all 0, test mode on: the test image was returned
C6_Witness ==
  /\ \A p \in Providers : amount0[p] = 0
  /\ pc = "compose"
  /\ image_base = TEST


(***************************************************************************)
(* C7: when the total weight is > 0, get_random_provider_mode returns only *)
(* a source whose current weight is > 0, and every source with weight > 0  *)
(* is a possible result of the draw.                                       *)
(***************************************************************************)
C7_DrawsExactlyLiveSources ==
  /\ (total_amounts(amount) > 0 => get_random_provider_mode(amount) = Live)
  /\ (pc = "dispatch" /\ provider # TEST =>
        provider \in Providers /\ amount[provider] > 0)

\* a draw on a table that has both excluded and live sources
C7_Witness ==
  /\ pc = "dispatch"
  /\ provider \in Live
  /\ Excluded # {}
  /\ Cardinality(Live) >= 2

C9_Original ==
  pc # "returned" =>
    /\ \A p \in Providers : failed[p] > 0 => amount[p] = 0
    /\ ErrorIcons = Cardinality({p \in Providers : failed[p] > 0})

(***************************************************************************)
(* C9 amended: a fetch that returns no image moves to Exclude (the weight  *)
(* of its source is set to 0, one error icon is appended) and the loop     *)
(* re-selects, and never leaves the loop; a fetch that raises is not       *)
(* caught by the loop: the exception ends the run with the weight of the   *)
(* failed source and the icon sequence as they were.                       *)
(***************************************************************************)
C9_OnlyNoImageIsExcluded ==
  /\ outcome # "no_image"
  /\ (pc # "returned" /\ ~RaisedInLoop =>
        /\ \A p \in Providers : failed[p] > 0 => amount[p] = 0
        /\ ErrorIcons = Cardinality({p \in Providers : failed[p] > 0}))
  /\ (RaisedInLoop /\ provider \in AllProviders /\ failed[provider] > 0 =>
        /\ provider \in Providers => amount[provider] = amount0[provider]
        /\ ErrorIcons = no_image
        /\ image_base = None)
  /\ \A p \in Excluded : failed[p] = 1

\* a generation API raised after another one had returned no image
C9_Witness ==
  /\ RaisedInLoop
  /\ provider \in Generators
  /\ failed[provider] = 1
  /\ amount[provider] > 0
  /\ no_image = 1

(***************************************************************************)
(* C10: the compose and display steps of run() are reached only after the  *)
(* acquisition loop produced an image: crop, icon drawing, text drawing    *)
(* and the driver's prepare and display happen only with a non-empty image *)
(* that a successful fetch gave, and a run that has no image writes no     *)
(* frame.                                                                  *)
(***************************************************************************)
C10_ComposeOnlyWithImage ==
  LET shown == \E i \in 1..Len(epd_calls) : epd_calls[i] \in {"prepare", "display"}
  IN /\ (pc \in {"compose", "display"} \/ composed \/ shown =>
           /\ image_base \in AllProviders
           /\ fetched[image_base] = 1
           /\ failed[image_base] = 0)
     /\ (shown => composed)
     /\ (image_base = None => ~composed /\ ~shown)

\* a frame was displayed after a failed and then a successful fetch
C10_Witness ==
  /\ outcome = "displayed"
  /\ composed
  /\ no_image >= 1
  /\ epd_calls = epd_sequence


(***************************************************************************)
(* C11. remove_provider_mode called with one of the five providers sets    *)
(* the amount of that provider to 0 and leaves the amount of every other   *)
(* provider as it was.                                                     *)
(***************************************************************************)
C11_RemoveZeroesOnlyTheMode ==
  (pc = "removed" /\ provider \in Providers)
    => /\ amount[provider] = 0
       /\ \A q \in Providers \ {provider} : amount[q] = amount0[q]

\* a provider with a positive amount was removed from a table where another
\* provider has a positive amount too
C11_Witness ==
  /\ pc = "removed"
  /\ provider \in Providers
  /\ amount0[provider] > 0
  /\ amount[provider] = 0
  /\ \E q \in Providers \ {provider} : amount[q] > 0

(***************************************************************************)
(* C12. remove_provider_mode is idempotent: a call for a provider whose    *)
(* amount is 0 already leaves the table as it is, and the second of two    *)
(* calls for the same mode changes nothing.                                *)
(***************************************************************************)
C12_RemoveIdempotent ==
  [][ /\ (provider' \in Providers /\ amount[provider'] = 0) => amount' = amount
      /\ pc = "removed" => (provider' = provider /\ amount' = amount) ]_vars

\* the second call for a provider whose amount was positive before the first
C12_Witness ==
  /\ pc = "removed_twice"
  /\ provider \in Providers
  /\ amount0[provider] > 0
  /\ amount = [amount0 EXCEPT ![provider] = 0]

(***************************************************************************)
(* C13. remove_provider_mode called with a mode that is none of the five   *)
(* providers (the test provider included) raises nothing and leaves every  *)
(* amount as it was: it logs one warning and that is all.                  *)
(***************************************************************************)
C13_UnknownModeOnlyWarns ==
  (pc = "removed" /\ provider \notin Providers)
    => /\ amount = amount0
       /\ warned = 1
       /\ outcome = "running"

\* the test provider was removed from a table with a positive amount
C13_Witness ==
  /\ pc = "removed"
  /\ provider = TEST
  /\ warned = 1
  /\ \E q \in Providers : amount[q] > 0

(***************************************************************************)
(* C20. A run started with --norun ends before the main part: no provider  *)
(* is drawn, no image loader is called, the display driver gets no call    *)
(* and nothing is composed.                                                *)
(***************************************************************************)
C20_NorunEndsBeforeMain ==
  norun => /\ calls = 0
           /\ provider = None
           /\ \A p \in AllProviders : fetched[p] = 0
           /\ image_base = None
           /\ epd_calls = <<>>
           /\ ~composed
           /\ pc \in {"run", "ended"}

\* the run with --norun has ended at the check of the flag
C20_Witness ==
  /\ norun
  /\ pc = "ended"
  /\ outcome = "norun"

C15_ReversePassesChained ==
  /\ Len(passes) <= Len(bracket_pairs)
  /\ \A i \in 1..Len(passes) :
       /\ passes[i][1] = bracket_pairs[Len(bracket_pairs) + 1 - i]
       /\ passes[i][2] = IF i = 1 THEN text0 ELSE passes[i - 1][3]
  /\ text = IF passes = <<>> THEN text0 ELSE passes[Len(passes)][3]
  /\ pc = "parsed" => Len(passes) = Len(bracket_pairs)

\* two pairs, and each of the two passes changed the text
C15_Witness ==
  /\ pc = "parsed"
  /\ bracket_pairs = <<SQUARE, CURLY>>
  /\ Len(passes) = 2
  /\ passes[1][3] # passes[1][2]
  /\ passes[2][3] # passes[2][2]

(***************************************************************************)
(* Vocabulary of C16.                                                      *)
(***************************************************************************)
\* the brackets of the declared pairs
Delimiters(pairs) == UNION {{pairs[k][1], pairs[k][2]} : k \in 1..Len(pairs)}

RECURSIVE spans_closed(_, _, _)
\* every declared bracket of the line opens or closes a span, no span holds
\* a span of its own pair or of a pair declared before its own, and every
\* span is closed; open_spans is the stack of the pairs of the open spans
spans_closed(line, pairs, open_spans) ==
  IF line = <<>> THEN open_spans = <<>>
  ELSE LET tok == Head(line)
           opened == {k \in 1..Len(pairs) : pairs[k][1] = tok}
           closed == {k \in 1..Len(pairs) : pairs[k][2] = tok}
       IN IF opened # {}
          THEN LET k == CHOOSE k \in opened : TRUE
               IN /\ open_spans = <<>> \/ open_spans[Len(open_spans)] < k
                  /\ spans_closed(Tail(line), pairs, Append(open_spans, k))
          ELSE IF closed # {}
          THEN LET k == CHOOSE k \in closed : TRUE
               IN /\ open_spans # <<>>
                  /\ open_spans[Len(open_spans)] = k
                  /\ spans_closed(Tail(line), pairs,
                                  SubSeq(open_spans, 1, Len(open_spans) - 1))
          ELSE spans_closed(Tail(line), pairs, open_spans)

\* the bracket spans of the line are all well formed
WellFormed(line, pairs) == spans_closed(line, pairs, <<>>)

RECURSIVE is_subsequence(_, _)
\* a is what is left of b when some of b's tokens are taken out
is_subsequence(a, b) ==
  IF a = <<>> THEN TRUE
  ELSE IF b = <<>> THEN FALSE
  ELSE IF Head(a) = Head(b) THEN is_subsequence(Tail(a), Tail(b))
  ELSE is_subsequence(a, Tail(b))

\* the token is nowhere in the line
without(line, toks) == \A i \in 1..Len(line) : line[i] \notin toks

\* the alternatives written in the inside of a span: the stretches between
\* two separators, or between a separator and an end
Alternatives(inside) ==
  {SubSeq(inside, i, j) : <<i, j>> \in
     {ij \in (1..Len(inside) + 1) \X (0..Len(inside)) :
        /\ ij[1] <= ij[2] + 1
        /\ without(SubSeq(inside, ij[1], ij[2]), {SEPARATOR})
        /\ ij[1] = 1 \/ inside[ij[1] - 1] = SEPARATOR
        /\ ij[2] = Len(inside) \/ inside[ij[2] + 1] = SEPARATOR}}

\* the line has one span of the pair and no other bracket of the pair
OneSpan(line, pair) ==
  /\ Cardinality({i \in 1..Len(line) : line[i] = pair[1]}) = 1
  /\ Cardinality({j \in 1..Len(line) : line[j] = pair[2]}) = 1
  /\ index_from(line, pair[1], 1) < index_from(line, pair[2], 1)

\* the line with one of the alternatives of its one span in the span's place
OneSpanResults(line, pair) ==
  LET i == index_from(line, pair[1], 1)
      j == index_from(line, pair[2], 1)
  IN {SubSeq(line, 1, i - 1) \o a \o SubSeq(line, j + 1, Len(line)) :
        a \in Alternatives(SubSeq(line, i + 1, j - 1))}

C17_PromptIsConcatenation ==
  LET once(part) == parsed_if(parts.parse, part, parts.brackets)
  IN /\ pc = "built_subject_artist"
          => /\ Len(built) = 3
             /\ built[2] \in once(parts.artist)
             /\ built[3] \in once(parts.title)
             /\ \E preamble \in once(parts.preamble),
                   connector \in once(parts.connector),
                   postscript \in once(parts.postscript) :
                  built[1] = preamble \o built[3] \o connector
                               \o built[2] \o postscript
             /\ ~parts.parse
                  => built[1] = parts.preamble \o parts.title \o parts.connector
                                  \o parts.artist \o parts.postscript
     /\ pc = "built_normal"
          => /\ Len(built) = 2
             /\ built[2] \in once(parts.title)
             /\ \E preamble \in once(parts.preamble),
                   postscript \in once(parts.postscript) :
                  built[1] = preamble \o built[2] \o postscript
             /\ ~parts.parse
                  => built[1] = parts.preamble \o parts.title \o parts.postscript

\* a subject and artist prompt built with parse set: the artist, the title
\* and the other three parts all came out of the parse changed
C17_Witness ==
  /\ pc = "built_subject_artist"
  /\ parts.parse
  /\ built[2] = <<"dali">>
  /\ built[3] = <<"a ", "big", " dog">>
  /\ built[1] = <<"ink", " of ", "a ", "big", " dog", " after ", "dali",
                  ", ", "4k">>

(***************************************************************************)
(* Vocabulary of C18 and C19.                                              *)
(***************************************************************************)
\* the calls of the kind among the calls made on the draw object
DrawnOf(kind) == {i \in 1..Len(drawn) : drawn[i][1] = kind}

\* the line is empty or absent
NoText(t) == t = "" \/ t = None

\* the boxes measured for the lines that have a text
MeasuredBoxes ==
  (IF NoText(box_args.artist_text) THEN {}
   ELSE {textbbox(artist_xy(box_args), box_args.artist_text)})
  \cup (IF NoText(box_args.title_text) THEN {}
        ELSE {textbbox(title_xy(box_args), box_args.title_text)})

\* the smallest box around the boxes of the set
UnionOfBoxes(boxes) ==
  <<CHOOSE l \in {b[1] : b \in boxes} : \A b \in boxes : l <= b[1],
    CHOOSE t \in {b[2] : b \in boxes} : \A b \in boxes : t <= b[2],
    CHOOSE r \in {b[3] : b \in boxes} : \A b \in boxes : r >= b[3],
    CHOOSE m \in {b[4] : b \in boxes} : \A b \in boxes : m >= b[4]>>

\* the box moved out by the padding on its four sides
Expanded(box, padding) ==
  <<box[1] - padding, box[2] - padding, box[3] + padding, box[4] + padding>>

(***************************************************************************)
(* C18. With the title and the artist both empty or absent,                *)
(* add_text_to_image draws no box and no text, whatever the padding and    *)
(* the box_to_floor and box_to_edge options are; with a text in at least   *)
(* one of them it draws exactly one box.                                   *)
(***************************************************************************)
C18_BoxOnlyWithText ==
  pc = "text_added"
    => IF NoText(box_args.title_text) /\ NoText(box_args.artist_text)
       THEN drawn = <<>>
       ELSE Cardinality(DrawnOf("rectangle")) = 1

\* no title and an absent artist, with padding and both options on: nothing
\* was drawn
C18_Witness ==
  /\ pc = "text_added"
  /\ box_args.title_text = ""
  /\ box_args.artist_text = None
  /\ box_args.padding > 0
  /\ box_args.box_to_floor
  /\ box_args.box_to_edge
  /\ drawn = <<>>

(***************************************************************************)
(* C19. As claimed: with box_to_floor and box_to_edge off, the box that    *)
(* add_text_to_image draws is the smallest box around the measured boxes   *)
(* of the lines that have a text, moved out by the padding on its four     *)
(* sides; with one line it is the measured box of that line, moved out by  *)
(* the padding.                                                            *)
(***************************************************************************)
C19_BoxIsPaddedUnionOfMeasured ==
  (/\ pc = "text_added"
   /\ ~box_args.box_to_floor
   /\ ~box_args.box_to_edge
   /\ drawn # <<>>)
    => drawn[1] = <<"rectangle",
                    Expanded(UnionOfBoxes(MeasuredBoxes), box_args.padding)>>

(***************************************************************************)
(* C21. For a table of weights with a total S > 0, one call of             *)
(* get_random_provider_mode gives provider i with probability weight_i / S:*)
(* random.choices looks up random() * S, which is uniform over [0, S), in  *)
(* the cumulative weights, and of the S unit intervals of [0, S) exactly   *)
(* weight_i lead to provider i. The call reads nothing but the table, so   *)
(* every call is a fresh draw with these odds.                             *)
(***************************************************************************)
C21_SelectedInProportionToWeight ==
  LET S == total_amounts(amount)
      drawn_for(p) ==
        {x \in 0..(S - 1) :
           choices(provider_types, provider_weights(amount), x) = p}
  IN S > 0
       => /\ \A p \in Providers : Cardinality(drawn_for(p)) = amount[p]
          /\ pc = "chosen" => (provider \in Providers /\ amount[provider] > 0)

\* a draw on a table of unequal weights gave the provider of weight 3 of 6
C21_Witness ==
  /\ pc = "chosen"
  /\ amount = [p \in Providers |->
                 IF p = STABLE THEN 3
                 ELSE IF p = EXTERNAL THEN 1
                 ELSE IF p = AUTOMATIC THEN 2
                 ELSE 0]
  /\ provider = STABLE

(***************************************************************************)
(* C22. Every Exclude step takes exactly one provider out of the live ones *)
(* (those with an amount > 0): the provider removed is the one whose       *)
(* loader was just called, its amount was > 0 when it was drawn and is 0   *)
(* afterwards, and the table never stays as it was.                        *)
(***************************************************************************)
C22_ExcludeRemovesOneLiveSource ==
  [][(pc = "returned" /\ pc' = "get_image")
       => /\ Cardinality(Live') = Cardinality(Live) - 1
          /\ Live' = Live \ {provider}
          /\ provider \in Live
          /\ fetched[provider] > 0
          /\ failed[provider] > 0
          /\ amount' # amount]_vars

\* two Exclude steps have been taken: two providers are out, one is left
C22_Witness ==
  /\ pc = "get_image"
  /\ Cardinality(Excluded) = 2
  /\ Cardinality(Live) = 1
  /\ no_image = 2

(***************************************************************************)
(* Vocabulary of C23 and C24.                                              *)
(***************************************************************************)
\* the last prompt was built from the prompts file: prep_prompt_text put no
\* Artist key in the metadata
BuiltInPromptMode == \A pair \in metadata : pair[1] # "Artist"

(***************************************************************************)
(* C23. As claimed: when the loop is left with the image of a generation   *)
(* API whose prompt was built from the prompts file, the artist text that  *)
(* goes on to the composition is empty: it is the one of the attempt that  *)
(* gave the image, never the artist of an earlier, failed attempt.         *)
(***************************************************************************)
C23_PromptModeLeavesNoArtist ==
  (ReturnedImage /\ image_base \in Generators /\ BuiltInPromptMode)
    => artist_text = ""

(***************************************************************************)
(* C24. save_image is called only with the image a generation API gave in  *)
(* the attempt under way, with the prompt sent to it and the metadata      *)
(* built with that prompt (the Prompt key holds it), and only when the     *)
(* config says so; nothing is saved for an attempt without an image, for   *)
(* the test image, or for an image from the external or the historic       *)
(* folder.                                                                 *)
(***************************************************************************)
C24_OnlyGeneratedImagesAreSaved ==
  /\ Len(saved) <= 1
  /\ saved # <<>>
       => /\ saved[1] = <<prompt, image_base, metadata>>
          /\ image_base # None
          /\ image_base = provider
          /\ provider \in Generators
          /\ <<"Prompt", prompt>> \in metadata
          /\ \A pair \in metadata : pair[1] = "Prompt" => pair[2] = prompt
          /\ save_image
  /\ (image_base \notin Generators \/ fetched[TEST] > 0) => saved = <<>>

\* the image of the second attempt was saved, the first had given none
C24_Witness ==
  /\ Len(saved) = 1
  /\ no_image = 1
  /\ ReturnedImage
  /\ saved[1][2] = provider

(***************************************************************************)
(* C25. With box_to_floor the bottom of the drawn box is the image height  *)
(* and its top is the top of the padded union of the measured boxes, as    *)
(* without the option; with box_to_edge its left is -crop_left and its     *)
(* right is crop_right, or the width of the display when crop_right is 0,  *)
(* and its top and bottom are what they are without the option.            *)
(***************************************************************************)
C25_SnapsMoveOnlyTheirSides ==
  (pc = "text_added" /\ drawn # <<>>)
    => LET box == drawn[1][2]
           a == box_args
           no_floor == draw_box([a EXCEPT !.box_to_floor = FALSE])
           no_edge == draw_box([a EXCEPT !.box_to_edge = FALSE])
       IN /\ drawn[1][1] = "rectangle"
          /\ a.box_to_floor
               => /\ box[4] = a.image_height
                  /\ box[2] = no_floor[2]
                  /\ box[2] = Expanded(UnionOfBoxes(MeasuredBoxes), a.padding)[2]
          /\ a.box_to_edge
               => /\ box[1] = 0 - a.crop_left
                  /\ box[3] = IF a.crop_right = 0 THEN a.epd_width
                              ELSE a.crop_right
                  /\ box[2] = no_edge[2]
                  /\ box[4] = no_edge[4]

\* both options on, crop_right not set: the box runs from -crop_left to the
\* width of the display and down to the image height
C25_Witness ==
  /\ pc = "text_added"
  /\ box_args.box_to_floor
  /\ box_args.box_to_edge
  /\ box_args.crop_left = 3
  /\ box_args.crop_right = 0
  /\ box_args.padding = 2
  /\ box_args.title_text = "long line"
  /\ drawn # <<>>
  /\ drawn[1][2] = <<0 - 3, 11, 20, 30>>

(***************************************************************************)
(* Vocabulary of C26.                                                      *)
(***************************************************************************)
\* the prep_prompt_text calls of the run: one per get_image call that did
\* not go to a folder
PrepCalls ==
  fetched[STABLE] + fetched[DALLE] + fetched[AUTOMATIC] + fetched[TEST]
    + (IF Exhausted THEN 1 ELSE 0)

(***************************************************************************)
(* C26. With a prompt mode that is none of subject-artist, prompt-file and *)
(* random, every prep_prompt_text call gives its warning and returns: the  *)
(* prompt is the one of the prompt-file builder, the metadata has the      *)
(* Prompt key with that prompt and no Artist or Title key, the title is    *)
(* the line of the prompts file, and get_image goes on to the provider.    *)
(***************************************************************************)
C26_InvalidModeFallsBackToPromptFile ==
  prompt_mode \notin {SUBJECT_ARTIST, PROMPT, RANDOM}
    => /\ mode_warned = PrepCalls
       /\ PrepCalls > 0
            => /\ prompt = "preamble+prompt_line+postscript"
               /\ metadata = {<<"Prompt", prompt>>}
               /\ (provider \in Generators /\ fetched[provider] > 0)
                    => title_text = "prompt_line"

\* with an invalid prompt mode two prompts were built and warned about, and
\* the second attempt gave an image
C26_Witness ==
  /\ prompt_mode = INVALID_MODE
  /\ mode_warned = 2
  /\ ReturnedImage
  /\ image_base \in Generators
  /\ metadata = {<<"Prompt", "preamble+prompt_line+postscript">>}

(***************************************************************************)
(* Vocabulary of C27.                                                      *)
(***************************************************************************)
\* the icon of the bucket the level is in
BucketIcon(level) ==
  IF level \in 0..20 THEN ICON_BATTERY_20
  ELSE IF level \in 21..40 THEN ICON_BATTERY_40
  ELSE IF level \in 41..60 THEN ICON_BATTERY_60
  ELSE IF level \in 61..80 THEN ICON_BATTERY_80
  ELSE IF level \in 81..100 THEN ICON_BATTERY_100
  ELSE ICON_BATTERY_ERROR

(***************************************************************************)
(* C27. As claimed: add_battery_icon appends exactly one icon, the one of  *)
(* the bucket of the level: 0..20 the 20% icon, 21..40 the 40% icon,       *)
(* 41..60 the 60% icon, 61..80 the 80% icon, 81..100 the 100% icon, and    *)
(* the battery-error icon only for a level outside 0..100.                 *)
(***************************************************************************)
C27_IconOfTheChargeBucket ==
  pc = "battery_icon_added"
    => /\ Len(icons) = no_image + 1
       /\ \A i \in 1..no_image : icons[i] = ICON_EXCEPTION
       /\ icons[Len(icons)] = BucketIcon(battery_args[1])

(***************************************************************************)
(* C28. As claimed: a run calls prepare, display and close of the display  *)
(* driver at most once each and in that order, and a run in which prepare  *)
(* was called has called close when it ends, also when the display call    *)
(* fails with an I/O error or is interrupted.                              *)
(***************************************************************************)
C28_PreparedDisplayIsClosed ==
  /\ is_subsequence(epd_calls, <<"prepare", "display", "close">>)
  /\ (pc = "ended" /\ count_in("prepare", epd_calls) > 0)
       => count_in("close", epd_calls) > 0
====
